---------------------------- MODULE Spec2Model ----------------------------
(***************************************************************************)
(* A model of the Shariah-companies crawler: the row extractor and the     *)
(* institution crawl of src/src/scraper/argaam_institution_scraper.py with *)
(* the page traversal of one crawl unit, the export guard of src/main.py,  *)
(* the store reconciliation of src/src/database/models.py as driven by     *)
(* src/src/scheduler/scheduler.py, the run triggers of                     *)
(* src/src/api/main.py, the crawl and the retry wrapper of                 *)
(* src/src/scraper/enhanced_scraper.py, and the classifier of              *)
(* src/src/processors/classifier.py.                                       *)
(*                                                                         *)
(* Texts are sequences of one-character strings over a small alphabet:     *)
(*   "0".."9"  ASCII digits                                                *)
(*   "s"       a digit for str.isdigit() that int() rejects (e.g. U+00B2)  *)
(*   "A", "B"  letters of the Arabic block U+0600..U+06FF                  *)
(*   "K"       a sector keyword of extract_company_from_row (Arabic block) *)
(*   "~"       one of the eight diacritics normalize_arabic_text removes   *)
(*   "x"       a Latin letter,  " " a blank,  "." and "-"                  *)
(***************************************************************************)
EXTENDS Integers, Sequences, FiniteSets, TLC

VARIABLES
    \* extract_company_from_row: one call
    cells, market_id, institution_name, result, xpc,
    \* ArgaamInstitutionScraper: one run of scrape_all_institutions
    ipc,                  \* where the run is
    market_filter,        \* the argument of the run
    driver,               \* self.driver: None or a browser session
    sessions,             \* the browser sessions that are open
    opened,               \* how many sessions the run has opened so far
    scraping_stats,       \* self.scraping_stats
    end_time_sets,        \* how often the run has assigned end_time
    inst_idx, mkt_idx,    \* the crawl unit that comes next
    institution_companies,
    all_companies,
    companies_data,       \* self.companies_data
    ret,                  \* what the run returned
    crawled,              \* the crawl units driven so far, in order
    \* DatabaseManager: the tables
    companies,            \* company_code -> row of table companies
    shariah_boards,       \* name_ar of the rows of table shariah_boards
    company_history,      \* rows of table company_history, oldest first
    scraping_logs,        \* rows of table scraping_logs, oldest first
    \* ScrapingScheduler.scrape_and_save: one run after another
    spc,                  \* where the current run is
    runs,                 \* runs started so far
    crawl,                \* companies, as scraper.scrape_companies() returned it
    idx,                  \* the next record of the loop over companies
    stats,                \* the run's stats dictionary
    active_codes,
    last_run,             \* self.last_run
    exports,              \* export files written
    prior,                \* table companies as it was when the run began
    classified,           \* what add_or_update_company did for each record
    site,                 \* how the web site behaved during the run's crawl
    main_run,             \* what one call of main of src/main.py did
    prev_crawl,           \* the crawl of the run before, if that run completed
    \* the API process: what starts runs
    is_running,           \* scheduler.is_running
    jobs,                 \* the jobs registered with the schedule module
    threads,              \* the polling threads start() has created
    background_tasks,     \* the run_scraper tasks of POST /api/v1/scrape
    loop,                 \* what the event loop thread is doing
    starts,               \* calls of start() that passed its guard
    \* one call of a function of the classifier or of arabic_utils
    call,                 \* the function and its arguments
    answer,               \* what the call returned
    \* one call of a function wrapped by retry_on_failure
    rpc,                  \* where the wrapper is
    max_attempts,         \* the decorator's max_attempts
    attempt,              \* the loop variable of the wrapper
    outcomes,             \* what each invocation of the function did
    sleeps,               \* calls of time.sleep(delay)
    returned,             \* what the wrapper returned or raised
    \* ArgaamInstitutionScraper: the pages of one crawl unit
    ppc,                  \* where the traversal of the unit is
    cur_page,             \* handle_pagination: current_page
    parsed,               \* the pages whose rows were extracted, in order
    unit_errors,          \* what the unit appended to scraping_stats['errors']
    probed,               \* what the next-page selectors gave when last probed
    activated,            \* the selector whose control was last clicked, or 0
    clicks                \* how many times a next-page control was clicked

rowVars == <<cells, market_id, institution_name, result, xpc>>

instVars == <<ipc, market_filter, driver, sessions, opened, scraping_stats,
              end_time_sets, inst_idx, mkt_idx, institution_companies,
              all_companies, companies_data, ret, crawled>>

dbVars == <<companies, shariah_boards, company_history, scraping_logs>>

runVars == <<spc, runs, crawl, idx, stats, active_codes, last_run, exports,
             prior, classified, site, main_run, prev_crawl>>

trigVars == <<is_running, jobs, threads, background_tasks, loop, starts>>

callVars == <<call, answer>>

retryVars == <<rpc, max_attempts, attempt, outcomes, sleeps, returned>>

pageVars == <<ppc, cur_page, parsed, unit_errors, probed, activated, clicks>>

vars == <<rowVars, instVars, dbVars, runVars, trigVars, callVars, retryVars,
          pageVars>>

-----------------------------------------------------------------------------
(* Text helpers (Python str methods)                                       *)

AsciiDigits == {"0", "1", "2", "3", "4", "5", "6", "7", "8", "9"}

\* characters for which str.isdigit() is true
DigitChars == AsciiDigits \cup {"s"}

\* characters c with '؀' <= c <= 'ۿ'
ArabicChars == {"A", "B", "K", "~"}

\* arabic_diacritics of normalize_arabic_text
arabic_diacritics == {"~"}

\* whitespace for str.split() and str.strip()
Whitespace == {" "}

\* the sector keywords of extract_company_from_row, one symbol each
sector_keywords == {"K"}

Contains(t, chars) == \E i \in 1..Len(t) : t[i] \in chars

isdigit(t) == Len(t) > 0 /\ \A i \in 1..Len(t) : t[i] \in DigitChars

DigitVal(c) ==
    CASE c = "0" -> 0 [] c = "1" -> 1 [] c = "2" -> 2 [] c = "3" -> 3
      [] c = "4" -> 4 [] c = "5" -> 5 [] c = "6" -> 6 [] c = "7" -> 7
      [] c = "8" -> 8 [] c = "9" -> 9

\* int(t) raises ValueError unless t is a non-empty run of decimal digits
IntRaises(t) == Len(t) = 0 \/ \E i \in 1..Len(t) : t[i] \notin AsciiDigits

RECURSIVE IntOf(_)
IntOf(t) ==
    IF Len(t) = 0 THEN 0
    ELSE 10 * IntOf(SubSeq(t, 1, Len(t) - 1)) + DigitVal(t[Len(t)])

DigitChar(d) ==
    CASE d = 0 -> "0" [] d = 1 -> "1" [] d = 2 -> "2" [] d = 3 -> "3"
      [] d = 4 -> "4" [] d = 5 -> "5" [] d = 6 -> "6" [] d = 7 -> "7"
      [] d = 8 -> "8" [] d = 9 -> "9"

\* str(n) for n >= 0: the decimal digits without leading zeros
RECURSIVE StrOf(_)
StrOf(n) ==
    IF n < 10 THEN <<DigitChar(n)>>
    ELSE Append(StrOf(n \div 10), DigitChar(n % 10))

startswith(t, c) == Len(t) > 0 /\ t[1] = c

RECURSIVE lstrip(_)
lstrip(t) ==
    IF Len(t) > 0 /\ t[1] \in Whitespace THEN lstrip(Tail(t)) ELSE t

RECURSIVE rstrip(_)
rstrip(t) ==
    IF Len(t) > 0 /\ t[Len(t)] \in Whitespace
    THEN rstrip(SubSeq(t, 1, Len(t) - 1)) ELSE t

strip(t) == rstrip(lstrip(t))

\* ' '.join(t.split()): whitespace runs become one blank, none at the ends
RECURSIVE JoinSplit(_)
JoinSplit(t) ==
    LET u == lstrip(t) IN
    IF Len(u) = 0 THEN <<>>
    ELSE IF Len(u) > 1 /\ u[2] \in Whitespace
         THEN LET rest == JoinSplit(Tail(Tail(u))) IN
              IF Len(rest) = 0 THEN <<u[1]>> ELSE <<u[1], " ">> \o rest
         ELSE <<u[1]>> \o JoinSplit(Tail(u))

\* text.replace(d, '') for every d in chars
RECURSIVE RemoveChars(_, _)
RemoveChars(t, chars) ==
    IF Len(t) = 0 THEN <<>>
    ELSE IF t[1] \in chars THEN RemoveChars(Tail(t), chars)
         ELSE <<t[1]>> \o RemoveChars(Tail(t), chars)

normalize_arabic_text(text) ==
    IF Len(text) = 0 THEN text
    ELSE strip(RemoveChars(JoinSplit(text), arabic_diacritics))

-----------------------------------------------------------------------------
(* float(text) on the alphabet: [-]digits[.digits] with at least one digit *)

NoFloat == [kind |-> "ValueError"]

DotCount(t) == Cardinality({i \in 1..Len(t) : t[i] = "."})

RECURSIVE StripZerosRight(_)
StripZerosRight(t) ==
    IF Len(t) > 0 /\ t[Len(t)] = "0"
    THEN StripZerosRight(SubSeq(t, 1, Len(t) - 1)) ELSE t

\* the value as n / 10^e with the fraction's trailing zeros dropped
ParseFloat(text) ==
    LET neg  == startswith(text, "-")
        body == IF neg THEN Tail(text) ELSE text
        dot  == IF DotCount(body) = 1
                THEN CHOOSE i \in 1..Len(body) : body[i] = "." ELSE 0
        ip   == IF dot = 0 THEN body ELSE SubSeq(body, 1, dot - 1)
        fp   == IF dot = 0 THEN <<>>
                ELSE StripZerosRight(SubSeq(body, dot + 1, Len(body)))
        raw  == IF dot = 0 THEN <<>> ELSE SubSeq(body, dot + 1, Len(body))
    IN  IF DotCount(body) > 1
           \/ Len(ip) + Len(raw) = 0
           \/ (\E i \in 1..Len(ip) : ip[i] \notin AsciiDigits)
           \/ (\E i \in 1..Len(raw) : raw[i] \notin AsciiDigits)
        THEN NoFloat
        ELSE [kind |-> "float", neg |-> neg, n |-> IntOf(ip \o fp), e |-> Len(fp)]

RECURSIVE Pow10(_)
Pow10(k) == IF k = 0 THEN 1 ELSE 10 * Pow10(k - 1)

\* 0 <= amount <= 100
InPurificationRange(f) ==
    /\ (~f.neg \/ f.n = 0)
    /\ f.n <= 100 * Pow10(f.e)

-----------------------------------------------------------------------------
(* config.py                                                               *)

\* config.MARKETS
MARKETS == [TASI |-> "tasi", NOMU |-> "nomu"]

\* config.MARKET_IDS
MARKET_IDS == [ALL |-> 0, TASI |-> 3, NOMU |-> 14]

None == [kind |-> "None"]

\* an exception that leaves the call
Raised == [kind |-> "raise"]

\* datetime.now()
Now == [kind |-> "datetime"]

-----------------------------------------------------------------------------
(* ArgaamInstitutionScraper.extract_company_from_row                       *)

\* the dictionary the function starts from (the timestamp is left out)
NewCompanyData(inst) ==
    [company_code |-> <<>>, company_name |-> <<>>, ticker_symbol |-> <<>>,
     market |-> "", shariah_board |-> inst, sector |-> <<>>,
     subsector |-> <<>>, classification |-> "shariah",
     purification_amount |-> None]

\* one iteration of "for i, cell in enumerate(cells)"; i is Python's index
CellRule(d, i, t) ==
    IF i = 0 /\ isdigit(t)
    THEN [d EXCEPT !.company_code = t, !.ticker_symbol = t]
    ELSE IF i = 1 /\ Len(t) > 0
    THEN [d EXCEPT !.company_name = normalize_arabic_text(t)]
    ELSE IF Len(t) > 0 /\ Contains(t, {"."})
    THEN LET amount == ParseFloat(t) IN
         IF amount # NoFloat /\ InPurificationRange(amount)
         THEN [d EXCEPT !.purification_amount = amount] ELSE d
    ELSE IF Len(t) > 0 /\ Contains(t, sector_keywords)
    THEN [d EXCEPT !.sector = t]
    ELSE d

RECURSIVE CellLoop(_, _, _)
CellLoop(d, row, i) ==
    IF i >= Len(row) THEN d
    ELSE CellLoop(CellRule(d, i, row[i + 1]), row, i + 1)

\* "If no code found in first cell, try to find it anywhere"
FallbackCode(d, row) ==
    IF Len(d.company_code) > 0 THEN d
    ELSE LET hits == {i \in 1..Len(row) : isdigit(row[i]) /\ Len(row[i]) = 4} IN
         IF hits = {} THEN d
         ELSE LET i == CHOOSE j \in hits : \A k \in hits : j <= k IN
              [d EXCEPT !.company_code = row[i], !.ticker_symbol = row[i]]

\* "If no name found, look for Arabic text"
FallbackName(d, row) ==
    IF Len(d.company_name) > 0 THEN d
    ELSE LET hits == {i \in 1..Len(row) : Contains(row[i], ArabicChars)} IN
         IF hits = {} THEN d
         ELSE LET i == CHOOSE j \in hits : \A k \in hits : j <= k IN
              [d EXCEPT !.company_name = normalize_arabic_text(row[i])]

\* str(code_int).startswith("4") or code_int >= 9000
IsNomuCode(code) ==
    LET code_int == IntOf(code) IN
    startswith(StrOf(code_int), "4") \/ code_int >= 9000

\* "Determine market based on market_id or company code"; int() may raise
MarketRaises(d, mid) ==
    mid \notin {3, 14} /\ Len(d.company_code) > 0 /\ IntRaises(d.company_code)

DetermineMarket(d, mid) ==
    IF mid = 3 THEN [d EXCEPT !.market = MARKETS.TASI]
    ELSE IF mid = 14 THEN [d EXCEPT !.market = MARKETS.NOMU]
    ELSE IF Len(d.company_code) > 0
    THEN IF IsNomuCode(d.company_code)
         THEN [d EXCEPT !.market = MARKETS.NOMU]
         ELSE [d EXCEPT !.market = MARKETS.TASI]
    ELSE d

\* the return statement without its validity test
ReturnUnchecked(d) == d

\* the return statement of the try block
ReturnIfValid(d) ==
    IF Len(d.company_name) > 0 /\ Len(d.company_code) > 0 THEN d ELSE None

\* the except branch: log and return None
OnExtractError(raised, value) == IF raised THEN None ELSE value

extract_company_from_row(row, inst, mid) ==
    LET d == FallbackName(FallbackCode(CellLoop(NewCompanyData(inst), row, 0), row), row)
    IN  OnExtractError(MarketRaises(d, mid), ReturnIfValid(DetermineMarket(d, mid)))

-----------------------------------------------------------------------------
(* ArgaamInstitutionScraper: state and helpers                             *)

\* config.SHARIAH_INSTITUTIONS: id -> name_ar, in the dictionary's order
InstitutionIds == <<1, 2, 3, 6>>

name_ar(id) ==
    CASE id = 1 -> <<"I1">> [] id = 2 -> <<"I2">>
      [] id = 3 -> <<"I3">> [] id = 6 -> <<"I6">>

\* self.scraping_stats as __init__ leaves it
NewScrapingStats ==
    [start_time |-> None, end_time |-> None, institutions_scraped |-> 0,
     companies_found |-> 0, companies_by_institution |-> <<>>,
     errors |-> <<>>]

InstIdle ==
    /\ ipc = "idle"
    /\ market_filter = "ALL"
    /\ driver = None
    /\ sessions = {}
    /\ opened = 0
    /\ scraping_stats = NewScrapingStats
    /\ end_time_sets = 0
    /\ inst_idx = 1
    /\ mkt_idx = 1
    /\ institution_companies = <<>>
    /\ all_companies = <<>>
    /\ companies_data = <<>>
    /\ ret = <<>>
    /\ crawled = <<>>

\* a market list that holds the main market whatever the filter
tasi_only(filter) == <<MARKET_IDS.TASI>>

\* "Determine which market(s) to scrape"
market_ids(filter) ==
    IF filter = "ALL" THEN <<MARKET_IDS.TASI, MARKET_IDS.NOMU>>
    ELSE IF filter \in DOMAIN MARKET_IDS THEN <<MARKET_IDS[filter]>>
    ELSE <<MARKET_IDS.TASI>>

\* key = f"{company['company_code']}_{company['shariah_board']}"
dedup_key(company) == company.company_code \o <<"_">> \o company.shariah_board

\* unique_companies[key] = company, whether or not the key is there
RECURSIVE unique_last_wins(_, _)
unique_last_wins(unique, rest) ==
    IF Len(rest) = 0 THEN unique
    ELSE LET company == Head(rest)
             key     == dedup_key(company)
             at      == {i \in 1..Len(unique) : unique[i].key = key}
         IN  IF at = {}
             THEN unique_last_wins(Append(unique, [key |-> key, value |-> company]), Tail(rest))
             ELSE unique_last_wins(
                      [i \in 1..Len(unique) |->
                          IF i \in at THEN [key |-> key, value |-> company]
                          ELSE unique[i]], Tail(rest))

\* the loop over all_companies: the dictionary as its (key, value) items in
\* insertion order
RECURSIVE unique_companies(_, _)
unique_companies(unique, rest) ==
    IF Len(rest) = 0 THEN unique
    ELSE LET company == Head(rest)
             key     == dedup_key(company)
         IN  IF \A i \in 1..Len(unique) : unique[i].key # key
             THEN unique_companies(Append(unique, [key |-> key, value |-> company]), Tail(rest))
             ELSE unique_companies(unique, Tail(rest))

\* list(unique_companies.values())
remove_duplicates(records) ==
    LET unique == unique_companies(<<>>, records) IN
    [i \in 1..Len(unique) |-> unique[i].value]

-----------------------------------------------------------------------------
(* DatabaseManager (src/src/database/models.py)                            *)

NoStats == [companies_found |-> 0, new_companies |-> 0,
            updated_companies |-> 0, errors |-> <<>>]

\* an empty database and a scheduler that has not run
DbIdle ==
    /\ companies = <<>>
    /\ shariah_boards = {}
    /\ company_history = <<>>
    /\ scraping_logs = <<>>
    /\ spc = "idle"
    /\ runs = 0
    /\ crawl = <<>>
    /\ idx = 1
    /\ stats = NoStats
    /\ active_codes = <<>>
    /\ last_run = 0
    /\ exports = 0
    /\ prior = <<>>
    /\ classified = <<>>
    /\ site = None
    /\ main_run = [kind |-> "not run", scraped |-> 0, exports |-> {}]
    /\ prev_crawl = <<>>

\* a scheduler that was never started and an API that got no request
TrigIdle ==
    /\ is_running = FALSE
    /\ jobs = 0
    /\ threads = <<>>
    /\ background_tasks = <<>>
    /\ loop = "idle"
    /\ starts = 0

\* no function called, nothing wrapped called
CallIdle ==
    /\ call = None
    /\ answer = None
    /\ rpc = "idle"
    /\ max_attempts = 0
    /\ attempt = 0
    /\ outcomes = <<>>
    /\ sleeps = 0
    /\ returned = None

\* no crawl unit under way
PageIdle ==
    /\ ppc = "idle"
    /\ cur_page = 1
    /\ parsed = <<>>
    /\ unit_errors = <<>>
    /\ probed = <<>>
    /\ activated = 0
    /\ clicks = 0

\* None where a text may stand (a missing dictionary key, an SQL NULL)
Null == "<None>"

\* company_data.get(key): None when the key is missing
Get(company_data, key) ==
    IF key \in DOMAIN company_data THEN company_data[key] ELSE Null

\* Python truth of a text or None
Truthy(v) == v # Null /\ v # ""

\* session.query(Company).filter_by(company_code=...).first()
Existing(table, code) == IF code \in DOMAIN table THEN table[code] ELSE None

\* get_or_create_shariah_board: the board's row is there afterwards
get_or_create_shariah_board(boards, name) == boards \cup {name}

\* the changes list of the update branch
Changes(existing, company_data) ==
    (IF existing.name_ar # Get(company_data, "company_name")
     THEN <<"Name">> ELSE <<>>)
    \o (IF existing.market # Get(company_data, "market")
        THEN <<"Market">> ELSE <<>>)
    \o (IF Truthy(Get(company_data, "shariah_board"))
           /\ existing.shariah_board # Get(company_data, "shariah_board")
        THEN <<"Shariah Board changed">> ELSE <<>>)

\* the row after the update branch's assignments
UpdatedRow(existing, company_data) ==
    [existing EXCEPT
        !.name_ar = Get(company_data, "company_name"),
        !.market = Get(company_data, "market"),
        !.shariah_board = IF Truthy(Get(company_data, "shariah_board"))
                          THEN Get(company_data, "shariah_board") ELSE @,
        !.sector = Get(company_data, "sector"),
        !.subsector = Get(company_data, "subsector")]

\* Company(...): the row of a new company; is_active defaults to True
NewRow(company_data) ==
    [name_ar |-> Get(company_data, "company_name"),
     market |-> Get(company_data, "market"),
     shariah_board |-> IF Truthy(Get(company_data, "shariah_board"))
                       THEN Get(company_data, "shariah_board") ELSE Null,
     sector |-> Get(company_data, "sector"),
     subsector |-> Get(company_data, "subsector"),
     is_active |-> TRUE]

\* name_ar and market are nullable=False: the commit raises IntegrityError
ViolatesNotNull(row) == row.name_ar = Null \/ row.market = Null

\* add_company_history: one more row, stamped with the run it was written in
add_company_history(history, code, row, change_type, change_details, run) ==
    Append(history, [company_code |-> code, snapshot_date |-> run,
                     market |-> row.market, shariah_board |-> row.shariah_board,
                     sector |-> row.sector, change_type |-> change_type,
                     change_details |-> change_details])

\* add_or_update_company: [raised, status, companies, history]
add_or_update_company(table, history, company_data, run) ==
    LET code     == company_data.company_code
        existing == Existing(table, code)
    IN  IF existing # None
        THEN LET changes == Changes(existing, company_data)
                 row     == UpdatedRow(existing, company_data)
             IN  IF ViolatesNotNull(row)
                 THEN [raised |-> TRUE, status |-> "raised",
                       companies |-> table, history |-> history]
                 ELSE [raised |-> FALSE, status |-> "updated",
                       companies |-> [table EXCEPT ![code] = row],
                       history |-> IF Len(changes) > 0
                                   THEN add_company_history(history, code, row, "updated", changes, run)
                                   ELSE history]
        ELSE LET row == NewRow(company_data) IN
             IF ViolatesNotNull(row)
             THEN [raised |-> TRUE, status |-> "raised",
                   companies |-> table, history |-> history]
             ELSE [raised |-> FALSE, status |-> "created",
                   companies |-> [c \in DOMAIN table \cup {code} |->
                                     IF c = code THEN row ELSE table[c]],
                   history |-> add_company_history(history, code, row, "new",
                                                   <<"New company added">>, run)]

ActiveCodes(table) == {c \in DOMAIN table : table[c].is_active}

InList(x, list) == \E i \in 1..Len(list) : list[i] = x

\* the rows mark_inactive_companies marks, in a fixed order
RECURSIVE DelistHistory(_, _, _, _)
DelistHistory(history, table, codes, run) ==
    IF codes = {} THEN history
    ELSE LET c == CHOOSE x \in codes : TRUE IN
         DelistHistory(
             add_company_history(history, c, table[c], "delisted",
                                 <<"Company marked as inactive">>, run),
             table, codes \ {c}, run)

\* mark_inactive_companies: [companies, history]
mark_inactive_companies(table, history, codes, run) ==
    LET gone == {c \in ActiveCodes(table) : ~InList(c, codes)} IN
    [companies |-> [c \in DOMAIN table |->
                       IF c \in gone THEN [table[c] EXCEPT !.is_active = FALSE]
                       ELSE table[c]],
     history |-> DelistHistory(history, table, gone, run)]

\* log_scraping_activity: the row added to scraping_logs
log_scraping_activity(logs, st) ==
    Append(logs, [total_companies |-> st.companies_found,
                  new_companies |-> st.new_companies,
                  updated_companies |-> st.updated_companies,
                  deleted_companies |-> 0,
                  status |-> IF Len(st.errors) = 0 THEN "success" ELSE "partial"])

-----------------------------------------------------------------------------
(* One call of extract_company_from_row on an arbitrary row                *)

\* the longest row tried
MaxCells == 3

\* cell texts as get_text(strip=True) returns them
CellTexts ==
    { <<>>,
      <<"4", "1", "0", "0">>, <<"9", "0", "0", "0">>, <<"8", "9", "9", "9">>,
      <<"0", "4", "1", "2">>, <<"s">>,
      <<"A", "~", " ", " ", "B">>, <<"~">>, <<"x">>,
      <<"1", ".", "5">>, <<"2", ".", "5">>, <<"1", "5", "0", ".", "0">>,
      <<".">>, <<"K">>, <<"K", "x">> }

Rows == UNION {[1..n -> CellTexts] : n \in 0..MaxCells}

\* the market_id values tried: TASI, NOMU, and MARKET_IDS["ALL"]
MarketIdInputs == {MARKET_IDS.TASI, MARKET_IDS.NOMU, MARKET_IDS.ALL}

NoResult == [kind |-> "pending"]

RowIdle ==
    /\ cells = <<>>
    /\ market_id = 0
    /\ institution_name = <<>>
    /\ result = NoResult
    /\ xpc = "idle"

InitExtract ==
    /\ InstIdle
    /\ DbIdle
    /\ TrigIdle
    /\ PageIdle
    /\ CallIdle
    /\ cells \in Rows
    /\ market_id \in MarketIdInputs
    /\ institution_name = name_ar(1)
    /\ result = NoResult
    /\ xpc = "call"

ExtractCompanyFromRow ==
    /\ xpc = "call"
    /\ result' = extract_company_from_row(cells, institution_name, market_id)
    /\ xpc' = "returned"
    /\ UNCHANGED <<cells, market_id, institution_name>>
    /\ UNCHANGED <<instVars, dbVars, runVars, trigVars, callVars, retryVars,
                   pageVars>>

NextExtract == ExtractCompanyFromRow

SpecExtract == InitExtract /\ [][NextExtract]_vars

-----------------------------------------------------------------------------
(* Claims about extract_company_from_row, under SpecExtract                *)

\* C6: for every row and every crawl unit, extract_company_from_row returns
\* without raising, and what it returns is None or a record whose
\* company_code and company_name are both non-empty.
C6_ExtractorValid ==
    xpc = "returned" =>
        /\ result # Raised
        /\ \/ result = None
           \/ Len(result.company_code) > 0 /\ Len(result.company_name) > 0

\* a malformed first cell: str.isdigit() accepts it, int() raises on it, and
\* the call still returns (None)
C6_Witness ==
    /\ xpc = "returned"
    /\ market_id = MARKET_IDS.ALL
    /\ Len(cells) >= 2
    /\ cells[1] = <<"s">>
    /\ Len(normalize_arabic_text(cells[2])) > 0
    /\ result = None

\* the market rule as C7 words it: the code's text begins with the digit 4,
\* or its numeric value is at least 9000
ClaimedNomuCode(code) == startswith(code, "4") \/ IntOf(code) >= 9000

\* C7: the market of a returned record is a function of (company_code,
\* market_id): 3 gives TASI, 14 gives NOMU, and for any other market_id a
\* code whose text begins with 4 or whose value is at least 9000 gives NOMU
\* and every other code gives TASI.
C7_MarketRule ==
    (xpc = "returned" /\ result # None) =>
        result.market =
            IF market_id = 3 THEN MARKETS.TASI
            ELSE IF market_id = 14 THEN MARKETS.NOMU
            ELSE IF ClaimedNomuCode(result.company_code) THEN MARKETS.NOMU
            ELSE MARKETS.TASI

\* the cells of the row that reach the purification rule with a text that
\* holds a decimal point and parses to a value from 0 to 100
AmountCells ==
    {i \in 1..Len(cells) :
        /\ i # 2
        /\ Contains(cells[i], {"."})
        /\ ParseFloat(cells[i]) # NoFloat
        /\ InPurificationRange(ParseFloat(cells[i]))}

\* the cells of the row that reach the sector rule with a text that holds
\* a sector keyword
SectorCells ==
    {i \in 1..Len(cells) :
        /\ i # 2
        /\ ~(i = 1 /\ isdigit(cells[i]))
        /\ ~Contains(cells[i], {"."})
        /\ Contains(cells[i], sector_keywords)}

First(S) == CHOOSE i \in S : \A j \in S : i <= j

\* C24: the rules only fill empty fields: purification_amount is the value
\* of the first cell with a decimal point that parses to a value in [0, 100]
\* and sector is the text of the first cell with a sector keyword
C24_FirstMatchWins ==
    (xpc = "returned" /\ result \notin {None, Raised}) =>
        /\ AmountCells # {} =>
              result.purification_amount = ParseFloat(cells[First(AmountCells)])
        /\ SectorCells # {} => result.sector = cells[First(SectorCells)]


-----------------------------------------------------------------------------
(* One run of ArgaamInstitutionScraper.scrape_all_institutions             *)

\* the most rows one crawl unit's pages hold, and the most records and
\* errors one run collects
MaxUnitRows == 2
MaxRecords == 3
MaxErrors == 1

\* the table rows a page may hold: the same company with and without a
\* sector cell, and a row that yields no record
PageRows ==
    { << <<"9", "5", "1", "0">>, <<"A">> >>,
      << <<"9", "5", "1", "0">>, <<"A">>, <<"K">> >>,
      << <<"x">> >> }

UnitPages == UNION {[1..n -> PageRows] : n \in 0..MaxUnitRows}

MarketFilters == {"ALL", "TASI", "NOMU", "OTHER"}

\* "company = extract_company_from_row(...); if company: companies.append"
RECURSIVE ExtractRows(_, _, _)
ExtractRows(rows, inst, mid) ==
    IF Len(rows) = 0 THEN <<>>
    ELSE LET company == extract_company_from_row(Head(rows), inst, mid) IN
         (IF company = None THEN <<>> ELSE <<company>>)
             \o ExtractRows(Tail(rows), inst, mid)

\* scrape_institution_companies: the records of the unit's rows; when the
\* page cannot be loaded the except branch records the error and the
\* (still empty) list is returned
scrape_institution_companies(rows, inst, mid, fails) ==
    IF fails THEN <<>> ELSE ExtractRows(rows, inst, mid)

UnitError(inst) == [type |-> "Institution", institution |-> inst]

FatalError == [type |-> "Fatal error"]

\* close_driver: quit the session self.driver refers to, if any
close_driver(open) == IF driver = None THEN open ELSE open \ {driver.session}

InitInst ==
    /\ RowIdle
    /\ DbIdle
    /\ TrigIdle
    /\ PageIdle
    /\ CallIdle
    /\ ipc = "start"
    /\ market_filter \in MarketFilters
    /\ driver = None
    /\ sessions = {}
    /\ opened = 0
    /\ scraping_stats = NewScrapingStats
    /\ end_time_sets = 0
    /\ inst_idx = 1
    /\ mkt_idx = 1
    /\ institution_companies = <<>>
    /\ all_companies = <<>>
    /\ companies_data = <<>>
    /\ ret = <<>>
    /\ crawled = <<>>

\* scrape_all_institutions up to the try block, setup_driver succeeding
SetupDriverOk ==
    /\ ipc = "start"
    /\ scraping_stats' = [scraping_stats EXCEPT !.start_time = Now]
    /\ driver' = [session |-> opened + 1]
    /\ sessions' = sessions \cup {opened + 1}
    /\ opened' = opened + 1
    /\ ipc' = "crawl"
    /\ UNCHANGED <<crawled, market_filter, end_time_sets, inst_idx, mkt_idx,
                   institution_companies, all_companies, companies_data, ret>>
    /\ UNCHANGED <<rowVars, dbVars, runVars, trigVars, callVars, retryVars,
                   pageVars>>

\* setup_driver raising before webdriver.Chrome returns: "return []"
SetupDriverFailsEarly ==
    /\ ipc = "start"
    /\ scraping_stats' = [scraping_stats EXCEPT !.start_time = Now]
    /\ ret' = <<>>
    /\ ipc' = "returned"
    /\ UNCHANGED <<crawled, market_filter, driver, sessions, opened, end_time_sets,
                   inst_idx, mkt_idx, institution_companies, all_companies,
                   companies_data>>
    /\ UNCHANGED <<rowVars, dbVars, runVars, trigVars, callVars, retryVars,
                   pageVars>>

\* setup_driver raising in set_page_load_timeout or implicitly_wait, after
\* self.driver was assigned: it returns False and the run returns []
SetupDriverFailsLate ==
    /\ ipc = "start"
    /\ scraping_stats' = [scraping_stats EXCEPT !.start_time = Now]
    /\ driver' = [session |-> opened + 1]
    /\ sessions' = sessions \cup {opened + 1}
    /\ opened' = opened + 1
    /\ ret' = <<>>
    /\ ipc' = "returned"
    /\ UNCHANGED <<crawled, market_filter, end_time_sets, inst_idx, mkt_idx,
                   institution_companies, all_companies, companies_data>>
    /\ UNCHANGED <<rowVars, dbVars, runVars, trigVars, callVars, retryVars,
                   pageVars>>

\* one pass of the inner loop: the next crawl unit, and after an
\* institution's last market the statistics and all_companies.extend
ScrapeUnit ==
    /\ ipc = "crawl"
    /\ inst_idx <= Len(InstitutionIds)
    /\ \E rows \in UnitPages, fails \in BOOLEAN :
         LET mids      == market_ids(market_filter)
             inst      == name_ar(InstitutionIds[inst_idx])
             found     == scrape_institution_companies(rows, inst, mids[mkt_idx], fails)
             collected == institution_companies \o found
             errors    == IF fails
                          THEN Append(scraping_stats.errors, UnitError(inst))
                          ELSE scraping_stats.errors
             by_inst   == scraping_stats.companies_by_institution
         IN  /\ Len(all_companies) + Len(collected) <= MaxRecords
             /\ Len(errors) <= MaxErrors
             /\ fails => Len(rows) = 0
             /\ IF mkt_idx < Len(mids)
                THEN /\ mkt_idx' = mkt_idx + 1
                     /\ institution_companies' = collected
                     /\ scraping_stats' = [scraping_stats EXCEPT !.errors = errors]
                     /\ UNCHANGED <<inst_idx, all_companies>>
                ELSE /\ mkt_idx' = 1
                     /\ inst_idx' = inst_idx + 1
                     /\ institution_companies' = <<>>
                     /\ all_companies' = all_companies \o collected
                     /\ scraping_stats' =
                          [scraping_stats EXCEPT
                             !.errors = errors,
                             !.institutions_scraped = @ + 1,
                             !.companies_by_institution =
                                 [n \in DOMAIN by_inst \cup {inst} |->
                                     IF n = inst THEN Len(collected) ELSE by_inst[n]]]
    /\ crawled' = Append(crawled, [institution_id |-> InstitutionIds[inst_idx],
                                  market_id |-> market_ids(market_filter)[mkt_idx]])
    /\ UNCHANGED <<ipc, market_filter, driver, sessions, opened, end_time_sets,
                   companies_data, ret>>
    /\ UNCHANGED <<rowVars, dbVars, runVars, trigVars, callVars, retryVars,
                   pageVars>>

\* after the last institution: remove duplicates, finish the statistics,
\* return self.companies_data; the finally block closes the driver
FinishRun ==
    /\ ipc = "crawl"
    /\ inst_idx > Len(InstitutionIds)
    /\ companies_data' = remove_duplicates(all_companies)
    /\ scraping_stats' = [scraping_stats EXCEPT
                            !.companies_found = Len(remove_duplicates(all_companies)),
                            !.end_time = Now]
    /\ end_time_sets' = end_time_sets + 1
    /\ ret' = remove_duplicates(all_companies)
    /\ sessions' = close_driver(sessions)
    /\ ipc' = "returned"
    /\ UNCHANGED <<crawled, market_filter, driver, opened, inst_idx, mkt_idx,
                   institution_companies, all_companies>>
    /\ UNCHANGED <<rowVars, dbVars, runVars, trigVars, callVars, retryVars,
                   pageVars>>

\* an exception inside the try block: the except branch records it and
\* returns [], the finally block closes the driver
FatalException ==
    /\ ipc = "crawl"
    /\ Len(scraping_stats.errors) < MaxErrors
    /\ scraping_stats' = [scraping_stats EXCEPT !.errors = Append(@, FatalError)]
    /\ ret' = <<>>
    /\ sessions' = close_driver(sessions)
    /\ ipc' = "returned"
    /\ UNCHANGED <<crawled, market_filter, driver, opened, end_time_sets, inst_idx,
                   mkt_idx, institution_companies, all_companies, companies_data>>
    /\ UNCHANGED <<rowVars, dbVars, runVars, trigVars, callVars, retryVars,
                   pageVars>>

NextInst ==
    \/ SetupDriverOk
    \/ SetupDriverFailsEarly
    \/ SetupDriverFailsLate
    \/ ScrapeUnit
    \/ FinishRun
    \/ FatalException

SpecInst == InitInst /\ [][NextInst]_vars

-----------------------------------------------------------------------------
(* Claims about scrape_all_institutions, under SpecInst                    *)

\* the run went through the deduplication and returned self.companies_data
ReturnedNormally == ipc = "returned" /\ end_time_sets > 0

KeysOf(records) == {dedup_key(records[i]) : i \in 1..Len(records)}

\* the first position at which a key arrives
FirstArrival(key, records) ==
    CHOOSE i \in 1..Len(records) :
        /\ dedup_key(records[i]) = key
        /\ \A j \in 1..(i - 1) : dedup_key(records[j]) # key

\* C4: the returned list holds exactly one entry per dedup key
\* (company_code, shariah_board); the entry is the first occurrence of its
\* key in arrival order, later occurrences are dropped, the survivors keep
\* their arrival order, and deduplicating the result again changes nothing.
C4_FirstSeenWins ==
    ReturnedNormally =>
        /\ KeysOf(ret) = KeysOf(all_companies)
        /\ \A i, j \in 1..Len(ret) :
              dedup_key(ret[i]) = dedup_key(ret[j]) => i = j
        /\ \A i \in 1..Len(ret) :
              ret[i] = all_companies[FirstArrival(dedup_key(ret[i]), all_companies)]
        /\ \A i, j \in 1..Len(ret) :
              i < j => FirstArrival(dedup_key(ret[i]), all_companies)
                         < FirstArrival(dedup_key(ret[j]), all_companies)
        /\ remove_duplicates(ret) = ret
        /\ companies_data = ret

\* three arrivals, two of them of one key and differing in a field, and
\* another key arriving after them
C4_Witness ==
    /\ ReturnedNormally
    /\ Len(all_companies) = 3
    /\ Len(ret) = 2
    /\ dedup_key(all_companies[1]) = dedup_key(all_companies[2])
    /\ all_companies[1] # all_companies[2]
    /\ dedup_key(all_companies[3]) # dedup_key(all_companies[1])

\* the fields an observation may or may not populate
MergeFields == {"sector", "purification_amount"}

Populated(company, f) ==
    IF f = "purification_amount" THEN company[f] # None ELSE Len(company[f]) > 0

\* C5 as stated: the canonical entry of a key is the union of the non-empty
\* fields of all records with that key, whatever their arrival order.
C5_UnionOfFields ==
    ReturnedNormally =>
        \A i \in 1..Len(ret), j \in 1..Len(all_companies), f \in MergeFields :
            (dedup_key(all_companies[j]) = dedup_key(ret[i])
               /\ Populated(all_companies[j], f))
            => Populated(ret[i], f)

\* C5 as amended: the canonical entry of a key carries the fields of the
\* first record that arrived with that key; a field is populated in the
\* canonical entry exactly when it is populated in that first record.
C5_FieldsOfFirstArrival ==
    ReturnedNormally =>
        \A i \in 1..Len(ret), f \in MergeFields :
            LET first == all_companies[FirstArrival(dedup_key(ret[i]), all_companies)]
            IN  /\ Populated(ret[i], f) <=> Populated(first, f)
                /\ ret[i][f] = first[f]

\* two records of one key, the sector populated in the first only
C5_Witness ==
    /\ ReturnedNormally
    /\ \E i, j \in 1..Len(all_companies) :
          /\ i < j
          /\ dedup_key(all_companies[i]) = dedup_key(all_companies[j])
          /\ i = FirstArrival(dedup_key(all_companies[i]), all_companies)
          /\ Populated(all_companies[i], "sector")
          /\ ~Populated(all_companies[j], "sector")
          /\ \E k \in 1..Len(ret) :
                /\ dedup_key(ret[k]) = dedup_key(all_companies[i])
                /\ Populated(ret[k], "sector")

\* C8: at most one browser session is open at a time, and on every exit path
\* of the run every session that was opened has been closed before the call
\* returns.
C8_SessionReleased ==
    /\ Cardinality(sessions) <= 1
    /\ ipc = "returned" => sessions = {}

\* C10: on every return path of a run scraping_stats['end_time'] has been
\* set, and it was set exactly once during the run.
C10_EndTimeSetOnce ==
    ipc = "returned" =>
        /\ scraping_stats.end_time # None
        /\ end_time_sets = 1

\* the run left the try block through "except Exception"
FatalErrorRecorded ==
    \E i \in 1..Len(scraping_stats.errors) : scraping_stats.errors[i] = FatalError

\* the records of the crawl units completed so far
Accumulated == all_companies \o institution_companies

\* C11: when a run-level exception occurs after some crawl units have
\* completed, the remaining units are not crawled, the error is appended to
\* scraping_stats['errors'], and the call returns the records accumulated
\* from the completed units.
C11_FatalReturnsAccumulated ==
    (ipc = "returned" /\ FatalErrorRecorded) =>
        \A i \in 1..Len(Accumulated) :
            \E k \in 1..Len(ret) : dedup_key(ret[k]) = dedup_key(Accumulated[i])

\* C12: a crawl unit that cannot be completed leaves an error entry that
\* identifies the unit's institution and market, no exception reaches the
\* orchestrator, and the remaining units of the run are still crawled.
C12_UnitErrorIdentifiesUnit ==
    /\ \A i \in 1..Len(scraping_stats.errors) :
          scraping_stats.errors[i].type = "Institution" =>
              /\ "institution" \in DOMAIN scraping_stats.errors[i]
              /\ "market" \in DOMAIN scraping_stats.errors[i]
    /\ (ipc = "returned" /\ end_time_sets = 1) =>
          scraping_stats.institutions_scraped = Len(InstitutionIds)

-----------------------------------------------------------------------------
(* ScrapingScheduler.scrape_and_save, one run after another                *)

\* the runs tried
MaxRuns == 3

\* a record as EnhancedArgaamScraper.extract_company_data_from_row builds it:
\* the market follows from the code, the sector stays empty
TableRecord(code, name, board) ==
    [company_code |-> code, company_name |-> name, ticker_symbol |-> code,
     market |-> IF code = "" THEN "" ELSE MARKETS.TASI,
     shariah_board |-> board, sector |-> "", subsector |-> "",
     classification |-> "shariah"]

\* a record as alternative_parsing builds it from a div: no market
DivRecord(code, name) ==
    [company_code |-> code, company_name |-> name, ticker_symbol |-> code,
     market |-> "", shariah_board |-> "unspecified", sector |-> "",
     subsector |-> "", classification |-> "shariah"]

\* a record as alternative_parsing builds it from a link: no market key
LinkRecord(code, name) ==
    [company_code |-> code, company_name |-> name, ticker_symbol |-> code,
     shariah_board |-> "unspecified", classification |-> "shariah"]

\* the record lists a page of the site may give
Crawls ==
    { <<>>,
      <<TableRecord("1111", "n1", "b1"), TableRecord("2222", "n2", "b1")>>,
      <<TableRecord("2222", "n2x", "b1"), TableRecord("3333", "n3", "b1")>>,
      <<TableRecord("1111", "n1", "b1")>>,
      <<TableRecord("2222", "n2", "b1")>>,
      <<TableRecord("1111", "n1", "b2")>>,
      <<TableRecord("1111", "n1", "b1"), TableRecord("1111", "n1", "b2")>>,
      <<DivRecord("1111", "n1")>>,
      <<TableRecord("", "n0", "b1"), TableRecord("2222", "n2", "b1")>>,
      <<TableRecord("2222", "n2", "b1"), LinkRecord("1111", "n1")>> }

-----------------------------------------------------------------------------
(* EnhancedArgaamScraper.scrape_companies on a site that behaves as told   *)

\* handle_pagination: max_pages
max_pages == 50

\* one scrape of the page that is shown: the records its rows give, and
\* whether the scrape raised after collecting them
Page(records) == [kind |-> "page", companies |-> records, raised |-> FALSE]

PageRaising(records) == [kind |-> "page", companies |-> records, raised |-> TRUE]

\* handle_pagination finds no enabled next element
NoNext == [kind |-> "no_next"]

\* scrollIntoView or next_element.click() raises
ClickRaises == [kind |-> "click_raises"]

\* scrape_current_page: [companies, errors]
scrape_current_page(page) ==
    [companies |-> page.companies,
     errors |-> IF page.raised THEN <<"Page scraping error">> ELSE <<>>]

\* "company['shariah_board'] = board" for every record of a board pass
RECURSIVE WithBoard(_, _)
WithBoard(records, board) ==
    IF Len(records) = 0 THEN <<>>
    ELSE <<[f \in DOMAIN Head(records) \cup {"shariah_board"} |->
               IF f = "shariah_board" THEN board ELSE Head(records)[f]]>>
         \o WithBoard(Tail(records), board)

\* the loop "for board in boards" of scrape_with_shariah_board_filter
RECURSIVE BoardPasses(_, _)
BoardPasses(boards, page) ==
    IF Len(boards) = 0 THEN [companies |-> <<>>, errors |-> <<>>]
    ELSE LET board == Head(boards)
             rest  == BoardPasses(Tail(boards), page)
             pass  == scrape_current_page(page)
         IN  IF board # "" /\ board # "All"
             THEN [companies |-> WithBoard(pass.companies, board) \o rest.companies,
                   errors |-> pass.errors \o rest.errors]
             ELSE rest

\* scrape_with_shariah_board_filter: [companies, errors]; its except branch
\* logs the exception and returns what was collected
scrape_with_shariah_board_filter(s) ==
    IF s.filter_raises THEN [companies |-> <<>>, errors |-> <<>>]
    ELSE IF Len(s.boards) > 1 THEN BoardPasses(s.boards, s.first)
    ELSE scrape_current_page(s.first)

\* handle_pagination: [companies, errors]
RECURSIVE handle_pagination(_, _)
handle_pagination(steps, current_page) ==
    IF ~(current_page < max_pages) \/ Len(steps) = 0
           \/ Head(steps).kind = "no_next" \/ Head(steps).kind = "click_raises"
    THEN [companies |-> <<>>, errors |-> <<>>]
    ELSE LET here == scrape_current_page(Head(steps))
             rest == handle_pagination(Tail(steps), current_page + 1)
         IN  [companies |-> here.companies \o rest.companies,
              errors |-> here.errors \o rest.errors]

\* scrape_companies: [companies, errors, end_time]
scrape_companies(s) ==
    IF ~s.setup \/ s.nav = "timeout"
    THEN [companies |-> <<>>, errors |-> <<>>, end_time |-> None]
    ELSE IF s.nav = "raises"
    THEN [companies |-> <<>>, errors |-> <<"Fatal error">>, end_time |-> None]
    ELSE LET filtered == scrape_with_shariah_board_filter(s)
             regular  == scrape_current_page(s.second)
             more     == handle_pagination(s.pagination, 1)
         IN  IF Len(filtered.companies) > 0
             THEN [companies |-> filtered.companies, errors |-> filtered.errors,
                   end_time |-> Now]
             ELSE [companies |-> regular.companies \o more.companies,
                   errors |-> filtered.errors \o regular.errors \o more.errors,
                   end_time |-> Now]

\* a site whose first page gives the records and where nothing fails
CleanSite(records) ==
    [setup |-> TRUE, nav |-> "ok", boards |-> <<>>, filter_raises |-> FALSE,
     first |-> Page(records), second |-> Page(records),
     pagination |-> <<NoNext>>]

\* the sites of the runs: every crawl without a failure, and the failures
Sites ==
    {CleanSite(c) : c \in Crawls}
    \cup
    { [CleanSite(<<>>) EXCEPT !.setup = FALSE],
      [CleanSite(<<>>) EXCEPT !.nav = "timeout"],
      [CleanSite(<<>>) EXCEPT !.nav = "raises"],
      [CleanSite(<<>>) EXCEPT
          !.second = Page(<<TableRecord("1111", "n1", "b1")>>),
          !.pagination = <<ClickRaises>>],
      [CleanSite(<<>>) EXCEPT
          !.second = Page(<<TableRecord("1111", "n1", "b1")>>),
          !.pagination = <<Page(<<TableRecord("3333", "n3", "b1")>>), NoNext>>],
      [CleanSite(<<>>) EXCEPT
          !.first = PageRaising(<<>>),
          !.second = Page(<<TableRecord("2222", "n2", "b1")>>)],
      [CleanSite(<<>>) EXCEPT
          !.second = PageRaising(<<TableRecord("2222", "n2", "b1")>>)],
      [CleanSite(<<>>) EXCEPT
          !.filter_raises = TRUE,
          !.second = Page(<<TableRecord("1111", "n1", "b1")>>)],
      [CleanSite(<<TableRecord("1111", "n1", "b1")>>) EXCEPT
          !.boards = <<"All", "b2">>],
      [CleanSite(<<>>) EXCEPT
          !.first = PageRaising(<<>>), !.second = PageRaising(<<>>)] }

\* a crawl that is taken for data whatever it holds
AlwaysUsable(c) == FALSE

\* "if not companies": the crawl returned no record
NoUsableData(c) == Len(c) = 0

\* main of src/main.py was not called
NotRun == [kind |-> "not run", scraped |-> 0, exports |-> {}]

\* --export-format
ExportFormats == {"json", "csv", "excel", "all"}

\* the export calls main makes for a format
MainExports(export_format) ==
    (IF export_format \in {"json", "all"}
     THEN {"export_flat", "export_hierarchical", "json export_by_market",
           "export_by_shariah_board"}
     ELSE {})
    \cup (IF export_format \in {"csv", "all"}
          THEN {"csv export", "csv export_by_market"} ELSE {})
    \cup (IF export_format \in {"excel", "all"}
          THEN {"export_multi_sheet", "export_simple"} ELSE {})

InitRuns ==
    /\ RowIdle
    /\ InstIdle
    /\ DbIdle
    /\ TrigIdle
    /\ PageIdle
    /\ CallIdle

\* scrape_and_save up to the loop: the crawl, and "if not companies: return"
BeginRun ==
    /\ spc = "idle"
    /\ runs < MaxRuns
    /\ main_run = NotRun
    /\ \E s \in Sites :
         LET scraped == scrape_companies(s)
             c       == scraped.companies
         IN  /\ runs' = runs + 1
             /\ site' = s
             /\ crawl' = c
             /\ prior' = companies
             /\ classified' = <<>>
             /\ prev_crawl' = IF runs > 0 /\ last_run = runs THEN crawl ELSE <<>>
             /\ IF NoUsableData(c)
                THEN /\ spc' = "idle"
                     /\ UNCHANGED <<idx, stats, active_codes>>
                ELSE /\ spc' = "saving"
                     /\ idx' = 1
                     /\ stats' = [companies_found |-> Len(c), new_companies |-> 0,
                                  updated_companies |-> 0,
                                  errors |-> scraped.errors]
                     /\ active_codes' = <<>>
    /\ UNCHANGED <<last_run, exports, main_run>>
    /\ UNCHANGED <<rowVars, instVars, dbVars, trigVars, callVars, retryVars,
                   pageVars>>

\* one pass of "for company_data in companies"
SaveCompany ==
    /\ spc = "saving"
    /\ idx <= Len(crawl)
    /\ LET company_data == crawl[idx]
           code         == company_data.company_code
           board        == Get(company_data, "shariah_board")
           done         == add_or_update_company(companies, company_history,
                                                 company_data, runs)
       IN  IF ~Truthy(code)
           THEN /\ idx' = idx + 1
                /\ UNCHANGED <<spc, stats, active_codes, classified, dbVars>>
           ELSE /\ active_codes' = Append(active_codes, code)
                /\ shariah_boards' = IF Truthy(board)
                                     THEN get_or_create_shariah_board(shariah_boards, board)
                                     ELSE shariah_boards
                /\ companies' = done.companies
                /\ company_history' = done.history
                /\ classified' = Append(classified,
                                   [company_code |-> code, status |-> done.status,
                                    company_data |-> company_data,
                                    stored |-> Existing(companies, code),
                                    audited |-> Len(done.history) > Len(company_history)])
                /\ IF done.raised
                   THEN /\ spc' = "idle"
                        /\ UNCHANGED <<idx, stats>>
                   ELSE /\ idx' = idx + 1
                        /\ stats' = IF done.status = "created"
                                    THEN [stats EXCEPT !.new_companies = @ + 1]
                                    ELSE [stats EXCEPT !.updated_companies = @ + 1]
                        /\ UNCHANGED spc
                /\ UNCHANGED scraping_logs
    /\ UNCHANGED <<runs, crawl, last_run, exports, prior, site, main_run,
                   prev_crawl>>
    /\ UNCHANGED <<rowVars, instVars, trigVars, callVars, retryVars, pageVars>>

\* after the loop: mark_inactive_companies and log_scraping_activity
MarkInactive ==
    /\ spc = "saving"
    /\ idx > Len(crawl)
    /\ LET done == mark_inactive_companies(companies, company_history,
                                           active_codes, runs)
       IN  /\ companies' = done.companies
           /\ company_history' = done.history
    /\ scraping_logs' = log_scraping_activity(scraping_logs, stats)
    /\ spc' = "exporting"
    /\ UNCHANGED shariah_boards
    /\ UNCHANGED <<runs, crawl, idx, stats, active_codes, last_run, exports,
                   prior, classified, site, main_run, prev_crawl>>
    /\ UNCHANGED <<rowVars, instVars, trigVars, callVars, retryVars, pageVars>>

\* step 3: the two export files, self.last_run, db_manager.close()
ExportRun ==
    /\ spc = "exporting"
    /\ exports' = exports + 2
    /\ last_run' = runs
    /\ spc' = "idle"
    /\ UNCHANGED <<runs, crawl, idx, stats, active_codes, prior, classified,
                   site, main_run, prev_crawl>>
    /\ UNCHANGED <<rowVars, instVars, dbVars, trigVars, callVars, retryVars,
                   pageVars>>

\* main of src/main.py with --scraper enhanced, a program of its own: the
\* crawl, "if not companies: return", and the exports of the format asked
\* for
Main ==
    /\ spc = "idle"
    /\ runs = 0
    /\ main_run = NotRun
    /\ \E s \in Sites, export_format \in ExportFormats :
         LET c == scrape_companies(s).companies
         IN  main_run' =
                [kind    |-> "returned",
                 scraped |-> Len(c),
                 exports |-> IF NoUsableData(c) THEN {}
                             ELSE MainExports(export_format)]
    /\ UNCHANGED <<spc, runs, crawl, idx, stats, active_codes, last_run,
                   exports, prior, classified, site, prev_crawl>>
    /\ UNCHANGED <<rowVars, instVars, dbVars, trigVars, callVars, retryVars,
                   pageVars>>

Next ==
    \/ BeginRun
    \/ SaveCompany
    \/ MarkInactive
    \/ ExportRun
    \/ Main

Spec == InitRuns /\ [][Next]_vars

-----------------------------------------------------------------------------
(* Reconciliation of one run against the store as it was before the run    *)

\* P: the codes active in the store when the run began
PriorActive == {c \in DOMAIN prior : prior[c].is_active}

\* C: the codes of the current crawl
CrawlCodes == {crawl[i].company_code : i \in 1..Len(crawl)} \ {""}

\* the audit entries of one kind written for a code during the current run
AuditEntries(code, change_type) ==
    {i \in 1..Len(company_history) :
        /\ company_history[i].snapshot_date = runs
        /\ company_history[i].company_code = code
        /\ company_history[i].change_type = change_type}

\* the codes the current run classified with a status
ClassifiedAs(status) ==
    {classified[i].company_code :
        i \in {j \in 1..Len(classified) : classified[j].status = status}}

\* the codes the current run marked delisted
Delisted == {c \in DOMAIN companies : AuditEntries(c, "delisted") # {}}

\* the first record of the crawl that carries the code of entry i
FirstOfCode(i) ==
    \A j \in 1..(i - 1) : classified[j].company_code # classified[i].company_code

\* a tracked field of the record differs from the stored row
TrackedFieldDiffers(stored, company_data) ==
    \/ stored.name_ar # Get(company_data, "company_name")
    \/ stored.market # Get(company_data, "market")
    \/ stored.shariah_board # Get(company_data, "shariah_board")
    \/ stored.sector # Get(company_data, "sector")

\* C1: after add_or_update_company for every record and
\* mark_inactive_companies, the delisted codes are exactly P \ C, each with
\* exactly one 'delisted' audit entry, and the codes classified new are
\* exactly C \ P.
C1_Reconciliation ==
    spc = "exporting" =>
        /\ Delisted = PriorActive \ CrawlCodes
        /\ \A c \in Delisted : Cardinality(AuditEntries(c, "delisted")) = 1
        /\ ClassifiedAs("created") = CrawlCodes \ PriorActive

\* C2: a record whose code is not active in the store before the run (never
\* stored, or stored and inactive) is classified 'created' with a 'new'
\* history entry; when the crawl's codes equal the prior active set nothing is
\* classified new and nothing is delisted.
C2_NewWhenNotActive ==
    /\ \A i \in 1..Len(classified) :
          (/\ classified[i].company_code \notin PriorActive
           /\ FirstOfCode(i)
           /\ Get(classified[i].company_data, "market") # Null)
          => /\ classified[i].status = "created"
             /\ AuditEntries(classified[i].company_code, "new") # {}
    /\ (spc = "exporting" /\ CrawlCodes = PriorActive)
          => ClassifiedAs("created") = {} /\ Delisted = {}

\* C3: a record whose code was active before the run is classified updated
\* (status 'updated', counted in updated_companies, with an 'updated' audit
\* entry) exactly when one of company_name, market, shariah_board, sector
\* differs from the stored value; an identical record is not classified
\* updated.
C3_UpdatedIffChanged ==
    \A i \in 1..Len(classified) :
        (/\ classified[i].company_code \in PriorActive
         /\ FirstOfCode(i)
         /\ classified[i].status # "raised")
        => IF TrackedFieldDiffers(classified[i].stored, classified[i].company_data)
           THEN /\ classified[i].status = "updated"
                /\ classified[i].audited
           ELSE /\ classified[i].status # "updated"
                /\ ~classified[i].audited

-----------------------------------------------------------------------------
(* The run log against what happened during the crawl                      *)

\* the run-log entry written last
LastLog == scraping_logs[Len(scraping_logs)]

\* the pagination step at which a part of the crawl failed, if there is one
PaginationFailed(steps) ==
    \E i \in 1..Len(steps) :
        /\ \A j \in 1..(i - 1) : steps[j].kind = "page"
        /\ \/ steps[i].kind = "click_raises"
           \/ steps[i].kind = "page" /\ steps[i].raised

\* some part of the crawl of the site failed: the board-filter pass, a page
\* scrape or a pagination step raised
CrawlFailed(s) ==
    \/ s.filter_raises
    \/ ~s.filter_raises /\ s.first.raised
    \/ /\ Len(scrape_with_shariah_board_filter(s).companies) = 0
       /\ (s.second.raised \/ PaginationFailed(s.pagination))

\* C13: a run that yields zero usable records is reported as a failed run:
\* a run-log entry with status 'failed' is recorded for it, and no entry
\* reports a successful run with zero entities.
C13_EmptyRunLoggedFailed ==
    /\ (runs > 0 /\ spc = "idle" /\ Len(crawl) = 0) =>
          \E i \in 1..Len(scraping_logs) : scraping_logs[i].status = "failed"
    /\ \A i \in 1..Len(scraping_logs) :
          scraping_logs[i].status = "success" => scraping_logs[i].total_companies > 0

\* C14: when some part of the run's crawl failed and records were still
\* obtained, the run-log entry has status 'partial'; 'success' is written
\* only for runs in which no part of the crawl failed.
C14_PartialWhenCrawlFailed ==
    spc = "exporting" =>
        /\ CrawlFailed(site) => LastLog.status = "partial"
        /\ LastLog.status = "success" => ~CrawlFailed(site)

\* a step of a run of scrape_and_save whose crawl returned no record
EmptyRunStep ==
    \/ runs' = runs + 1 /\ crawl' = <<>>
    \/ runs' = runs /\ runs > 0 /\ crawl = <<>>

\* C25: when the crawl returns no record, scrape_and_save adds, updates and
\* delists nothing in the store, writes no export and leaves last_run as it
\* was, and main writes no export file
C25_EmptyCrawlNoData ==
    [][ /\ EmptyRunStep =>
              UNCHANGED <<companies, shariah_boards, company_history,
                          exports, last_run>>
        /\ (main_run'.kind = "returned" /\ main_run'.scraped = 0) =>
              main_run'.exports = {} ]_vars

\* a run with an empty crawl after a run that stored companies and exported
C25_Witness ==
    /\ spc = "idle"
    /\ crawl = <<>>
    /\ runs = 2
    /\ last_run = 1
    /\ exports = 2
    /\ ActiveCodes(companies) # {}

\* the run numbered runs went through all of scrape_and_save
RunCompleted == spc = "idle" /\ runs > 0 /\ last_run = runs

\* C26: after scrape_and_save completes without exception on a non-empty
\* crawl, whatever the store held before, a company of the store is active
\* if and only if its code occurs in the crawl
C26_ActiveIffInCrawl ==
    RunCompleted =>
        \A code \in DOMAIN companies :
            companies[code].is_active <=> code \in CrawlCodes

\* C27: scrape_and_save marks a company delisted only in a run whose crawl
\* recorded no errors: a crawl that lost pages or board passes to caught
\* errors never causes a delisting
C27_NoDelistingAfterErrors ==
    Delisted # {} => stats.errors = <<>>

\* the entries the current run wrote to the audit trail
RunAuditEntries ==
    {i \in 1..Len(company_history) :
        /\ company_history[i].snapshot_date = runs
        /\ company_history[i].change_type \in {"new", "updated", "delisted"}}

\* the run before completed and the current run crawled the same records
SameCrawlAgain == runs > 1 /\ Len(crawl) > 0 /\ crawl = prev_crawl

\* C28: running scrape_and_save twice in succession with the same crawl,
\* also one that holds a company_code under two shariah boards, writes no
\* 'new', 'updated' or 'delisted' entry during the second run and leaves the
\* fields of every stored company as they were
C28_SecondRunSilent ==
    SameCrawlAgain =>
        /\ RunAuditEntries = {}
        /\ RunCompleted => companies = prior

-----------------------------------------------------------------------------
(* The triggers of a run: POST /api/v1/scrape, scheduler start and stop,   *)
(* and the polling thread of the scheduler                                 *)

\* requests POST /api/v1/scrape
MaxTriggers == 2

\* calls of scheduler.start() that pass the is_running guard
MaxStarts == 2

InitTrig ==
    /\ RowIdle
    /\ InstIdle
    /\ DbIdle
    /\ TrigIdle
    /\ PageIdle
    /\ CallIdle

\* trigger_scrape: background_tasks.add_task(run_scraper), then the response
TriggerScrape ==
    /\ loop = "idle"
    /\ Len(background_tasks) < MaxTriggers
    /\ background_tasks' = Append(background_tasks, "queued")
    /\ UNCHANGED <<is_running, jobs, threads, loop, starts>>
    /\ UNCHANGED <<rowVars, instVars, dbVars, runVars, callVars, retryVars,
                   pageVars>>

\* run_scraper begins on a worker thread once the response is sent
RunScraperBegin ==
    /\ loop = "idle"
    /\ \E i \in 1..Len(background_tasks) :
         /\ background_tasks[i] = "queued"
         /\ background_tasks' = [background_tasks EXCEPT ![i] = "running"]
    /\ UNCHANGED <<is_running, jobs, threads, loop, starts>>
    /\ UNCHANGED <<rowVars, instVars, dbVars, runVars, callVars, retryVars,
                   pageVars>>

\* run_scraper returns; its except clause swallows every exception
RunScraperEnd ==
    /\ \E i \in 1..Len(background_tasks) :
         /\ background_tasks[i] = "running"
         /\ background_tasks' = [background_tasks EXCEPT ![i] = "done"]
    /\ UNCHANGED <<is_running, jobs, threads, loop, starts>>
    /\ UNCHANGED <<rowVars, instVars, dbVars, runVars, callVars, retryVars,
                   pageVars>>

\* start() up to run_immediately(), called by start_scheduler on the event
\* loop: the guard, is_running, the job, and the run begins in the caller
StartScheduler ==
    /\ loop = "idle"
    /\ starts < MaxStarts
    /\ IF is_running
       THEN UNCHANGED <<is_running, jobs, loop, starts>>
       ELSE /\ is_running' = TRUE
            /\ jobs' = jobs + 1
            /\ loop' = "run_immediately"
            /\ starts' = starts + 1
    /\ UNCHANGED <<threads, background_tasks>>
    /\ UNCHANGED <<rowVars, instVars, dbVars, runVars, callVars, retryVars,
                   pageVars>>

\* the immediate run returns and start() creates the polling thread
StartSchedulerThread ==
    /\ loop = "run_immediately"
    /\ threads' = Append(threads, "sleeping")
    /\ loop' = "idle"
    /\ UNCHANGED <<is_running, jobs, background_tasks, starts>>
    /\ UNCHANGED <<rowVars, instVars, dbVars, runVars, callVars, retryVars,
                   pageVars>>

\* the immediate run raises (scrape_and_save re-raises): start() is left
\* before the thread is created, is_running stays True
StartSchedulerRaises ==
    /\ loop = "run_immediately"
    /\ loop' = "idle"
    /\ UNCHANGED <<is_running, jobs, threads, background_tasks, starts>>
    /\ UNCHANGED <<rowVars, instVars, dbVars, runVars, callVars, retryVars,
                   pageVars>>

\* stop(): is_running = False, join(timeout=5), schedule.clear()
StopScheduler ==
    /\ loop = "idle"
    /\ IF ~is_running
       THEN UNCHANGED <<is_running, jobs>>
       ELSE /\ is_running' = FALSE
            /\ jobs' = 0
    /\ UNCHANGED <<threads, background_tasks, loop, starts>>
    /\ UNCHANGED <<rowVars, instVars, dbVars, runVars, callVars, retryVars,
                   pageVars>>

\* run_scheduler: one pass of "while self.is_running: run_pending(); sleep"
RunPending ==
    /\ \E j \in 1..Len(threads), due \in BOOLEAN :
         /\ threads[j] = "sleeping"
         /\ threads' = [threads EXCEPT ![j] =
                           IF ~is_running THEN "exited"
                           ELSE IF due /\ jobs > 0 THEN "scrape_and_save"
                           ELSE "sleeping"]
    /\ UNCHANGED <<is_running, jobs, background_tasks, loop, starts>>
    /\ UNCHANGED <<rowVars, instVars, dbVars, runVars, callVars, retryVars,
                   pageVars>>

\* the job of a polling thread returns
JobReturns ==
    /\ \E j \in 1..Len(threads) :
         /\ threads[j] = "scrape_and_save"
         /\ threads' = [threads EXCEPT ![j] = "sleeping"]
    /\ UNCHANGED <<is_running, jobs, background_tasks, loop, starts>>
    /\ UNCHANGED <<rowVars, instVars, dbVars, runVars, callVars, retryVars,
                   pageVars>>

\* the job of a polling thread raises: the thread ends
JobRaises ==
    /\ \E j \in 1..Len(threads) :
         /\ threads[j] = "scrape_and_save"
         /\ threads' = [threads EXCEPT ![j] = "exited"]
    /\ UNCHANGED <<is_running, jobs, background_tasks, loop, starts>>
    /\ UNCHANGED <<rowVars, instVars, dbVars, runVars, callVars, retryVars,
                   pageVars>>

NextTrig ==
    \/ TriggerScrape
    \/ RunScraperBegin
    \/ RunScraperEnd
    \/ StartScheduler
    \/ StartSchedulerThread
    \/ StartSchedulerRaises
    \/ StopScheduler
    \/ RunPending
    \/ JobReturns
    \/ JobRaises

SpecTrig == InitTrig /\ [][NextTrig]_vars

\* the scrape-and-persist runs that are active
ActiveRuns ==
    {<<"run_scraper", i>> : i \in {k \in 1..Len(background_tasks) :
                                      background_tasks[k] = "running"}}
    \cup {<<"thread", j>> : j \in {k \in 1..Len(threads) :
                                      threads[k] = "scrape_and_save"}}
    \cup (IF loop = "run_immediately" THEN {<<"start", 0>>} ELSE {})

\* C9: at no time are two scrape-and-persist runs active at once.
C9_OneRunAtATime == Cardinality(ActiveRuns) <= 1

\* the polling threads that are alive
PollingThreads == {j \in 1..Len(threads) : threads[j] # "exited"}

\* C29: after any sequence of start() and stop(), in any timing relative to
\* the sleep of the polling thread and the join timeout of stop(), at most
\* one polling thread is alive and looping over schedule.run_pending, so a
\* due job is never started by two polling threads
C29_OnePollingThread ==
    /\ is_running => Cardinality(PollingThreads) <= 1
    /\ Cardinality({j \in 1..Len(threads) : threads[j] = "scrape_and_save"}) <= 1

\* C30: after any sequence of start() and stop(), also when start() raises
\* because its immediate run failed, is_running is True exactly when a
\* polling thread has been started and not stopped and exactly one periodic
\* job is registered
C30_RunningMeansThreadAndJob ==
    loop = "idle" =>
        /\ is_running => /\ Len(threads) = starts
                         /\ jobs = 1
        /\ ~is_running => jobs = 0


-----------------------------------------------------------------------------
(* CompanyClassifier (src/src/processors/classifier.py) and                *)
(* normalize_arabic_text, one call on arbitrary arguments                  *)

\* self.markets: the two market names as texts of the alphabet
markets == [TASI |-> <<"A">>, NOMU |-> <<"B">>]

\* the default of company.get("shariah_board", "Unknown")
Unknown == <<"x">>

\* a str argument; None stands for an argument that is None
Str(t) == [kind |-> "str", text |-> t]

\* company.get(key, default)
GetOr(company, key, default) ==
    IF key \in DOMAIN company THEN company[key] ELSE default

\* a classifier that looks the market up after normalizing it
MarketBucketNormalized(company) ==
    LET market == normalize_arabic_text(GetOr(company, "market", markets.TASI)) IN
    IF market \in {markets.TASI, markets.NOMU} THEN market ELSE markets.TASI

\* a classifier that drops the records whose market it does not know
classify_known_markets(records) ==
    [m \in {markets.TASI, markets.NOMU} |->
        SelectSeq(records, LAMBDA c : "market" \in DOMAIN c /\ c.market = m)]

\* the key of classify_by_market's dictionary a record is appended under
MarketBucket(company) ==
    LET market == GetOr(company, "market", markets.TASI) IN
    IF market \in {markets.TASI, markets.NOMU} THEN market ELSE markets.TASI

\* classify_by_market: market name -> the records appended, in input order
classify_by_market(records) ==
    [m \in {markets.TASI, markets.NOMU} |->
        SelectSeq(records, LAMBDA c : MarketBucket(c) = m)]

\* the key of classify_by_shariah_board's dictionary for a record
BoardBucket(company) ==
    normalize_arabic_text(GetOr(company, "shariah_board", Unknown))

\* classify_by_shariah_board: board -> the records appended, in input order
classify_by_shariah_board(records) ==
    [b \in {BoardBucket(records[i]) : i \in 1..Len(records)} |->
        SelectSeq(records, LAMBDA c : BoardBucket(c) = b)]

\* create_hierarchical_structure
create_hierarchical_structure(records) ==
    LET by_market == classify_by_market(records) IN
    [total_companies |-> Len(records),
     markets |-> [m \in DOMAIN by_market |->
                     [total |-> Len(by_market[m]),
                      by_shariah_board |-> classify_by_shariah_board(by_market[m])]]]

\* a filter test that takes every str, the empty one too, as a filter
GivenNotNone(arg) == arg # None

\* "if market:" and "if shariah_board:" for an Optional[str] argument
Given(arg) == arg # None /\ Len(arg.text) > 0

\* filter_companies
filter_companies(records, market, shariah_board) ==
    LET by_market ==
            IF Given(market)
            THEN SelectSeq(records, LAMBDA c :
                     normalize_arabic_text(GetOr(c, "market", <<>>))
                         = normalize_arabic_text(market.text))
            ELSE records
    IN  IF Given(shariah_board)
        THEN SelectSeq(by_market, LAMBDA c :
                 normalize_arabic_text(GetOr(c, "shariah_board", <<>>))
                     = normalize_arabic_text(shariah_board.text))
        ELSE by_market

\* normalize_arabic_text on a str or None: "if not text: return text"
NormalizeArabicTextOf(arg) ==
    IF arg = None THEN None ELSE Str(normalize_arabic_text(arg.text))

\* the records a list may hold
MaxCompanies == 2

\* the length of a text
MaxText == 5

\* records with a market that is TASI, NOMU, NOMU followed by a blank,
\* empty, unrecognised or missing, and boards that differ by a diacritic
CompanySamples ==
    { [company_code |-> "1111", market |-> <<"A">>, shariah_board |-> <<"A">>],
      [company_code |-> "2222", market |-> <<"B">>, shariah_board |-> <<"A", "~">>],
      [company_code |-> "3333", market |-> <<"B", " ">>, shariah_board |-> <<"K">>],
      [company_code |-> "4444", market |-> <<>>, shariah_board |-> <<"A">>],
      [company_code |-> "5555", market |-> <<"x">>],
      [company_code |-> "6666", shariah_board |-> <<"K">>],
      [company_code |-> "7777"] }

CompanyLists == UNION {[1..n -> CompanySamples] : n \in 0..MaxCompanies}

FilterArgs ==
    {None, Str(<<>>), Str(<<"A">>), Str(<<"B">>), Str(<<" ", "B">>),
     Str(<<"A", "~">>), Str(<<"K">>)}

Texts == UNION {[1..n -> {"A", "~", " "}] : n \in 0..MaxText}

\* the calls
Calls ==
    {[fn |-> "classify_by_market", companies |-> l] : l \in CompanyLists}
    \cup {[fn |-> "classify_by_shariah_board", companies |-> l] : l \in CompanyLists}
    \cup {[fn |-> "create_hierarchical_structure", companies |-> l] : l \in CompanyLists}
    \cup {[fn |-> "filter_companies", companies |-> l, market |-> m,
           shariah_board |-> b] : l \in CompanyLists, m \in FilterArgs, b \in FilterArgs}
    \cup {[fn |-> "normalize_arabic_text", text |-> t] :
             t \in {None} \cup {Str(x) : x \in Texts}}

\* the call has not returned
Pending == [kind |-> "pending"]

Returned(r) == [kind |-> "returned", result |-> r]

InitCall ==
    /\ RowIdle
    /\ InstIdle
    /\ DbIdle
    /\ TrigIdle
    /\ PageIdle
    /\ call \in Calls
    /\ answer = Pending
    /\ rpc = "idle"
    /\ max_attempts = 0
    /\ attempt = 0
    /\ outcomes = <<>>
    /\ sleeps = 0
    /\ returned = None

ClassifyByMarket ==
    /\ answer = Pending
    /\ call.fn = "classify_by_market"
    /\ answer' = Returned(classify_by_market(call.companies))
    /\ UNCHANGED <<call, retryVars>>
    /\ UNCHANGED <<rowVars, instVars, dbVars, runVars, trigVars, pageVars>>

ClassifyByShariahBoard ==
    /\ answer = Pending
    /\ call.fn = "classify_by_shariah_board"
    /\ answer' = Returned(classify_by_shariah_board(call.companies))
    /\ UNCHANGED <<call, retryVars>>
    /\ UNCHANGED <<rowVars, instVars, dbVars, runVars, trigVars, pageVars>>

CreateHierarchicalStructure ==
    /\ answer = Pending
    /\ call.fn = "create_hierarchical_structure"
    /\ answer' = Returned(create_hierarchical_structure(call.companies))
    /\ UNCHANGED <<call, retryVars>>
    /\ UNCHANGED <<rowVars, instVars, dbVars, runVars, trigVars, pageVars>>

FilterCompanies ==
    /\ answer = Pending
    /\ call.fn = "filter_companies"
    /\ answer' = Returned(filter_companies(call.companies, call.market,
                                           call.shariah_board))
    /\ UNCHANGED <<call, retryVars>>
    /\ UNCHANGED <<rowVars, instVars, dbVars, runVars, trigVars, pageVars>>

NormalizeArabicText ==
    /\ answer = Pending
    /\ call.fn = "normalize_arabic_text"
    /\ answer' = Returned(NormalizeArabicTextOf(call.text))
    /\ UNCHANGED <<call, retryVars>>
    /\ UNCHANGED <<rowVars, instVars, dbVars, runVars, trigVars, pageVars>>

NextCall ==
    \/ ClassifyByMarket
    \/ ClassifyByShariahBoard
    \/ CreateHierarchicalStructure
    \/ FilterCompanies
    \/ NormalizeArabicText

SpecCall == InitCall /\ [][NextCall]_vars

-----------------------------------------------------------------------------
(* The classifier's results                                                *)

HasReturned(fn) == answer # Pending /\ call # None /\ call.fn = fn

RECURSIVE SumLen(_, _)
SumLen(lists, keys) ==
    IF keys = {} THEN 0
    ELSE LET k == CHOOSE x \in keys : TRUE IN
         Len(lists[k]) + SumLen(lists, keys \ {k})

RECURSIVE SumTotal(_, _)
SumTotal(buckets, keys) ==
    IF keys = {} THEN 0
    ELSE LET k == CHOOSE x \in keys : TRUE IN
         buckets[k].total + SumTotal(buckets, keys \ {k})

Occurrences(x, list) == Cardinality({i \in 1..Len(list) : list[i] = x})

\* the (market, board) buckets of an index that hold a record
BucketsOf(x, index) ==
    {mb \in UNION {{<<m, b>> : b \in DOMAIN index.markets[m].by_shariah_board}
                      : m \in DOMAIN index.markets} :
        Occurrences(x, index.markets[mb[1]].by_shariah_board[mb[2]]) > 0}

\* C15: in the index create_hierarchical_structure returns, total_companies
\* is the number of input records, the market totals sum to it, within each
\* market the by_shariah_board lists sum to the market's total, and every
\* input record is in exactly one market/board bucket.
C15_HierarchyTotals ==
    HasReturned("create_hierarchical_structure") =>
        LET index == answer.result IN
        /\ index.total_companies = Len(call.companies)
        /\ SumTotal(index.markets, DOMAIN index.markets) = index.total_companies
        /\ \A m \in DOMAIN index.markets :
              SumLen(index.markets[m].by_shariah_board,
                     DOMAIN index.markets[m].by_shariah_board)
                  = index.markets[m].total
        /\ \A i \in 1..Len(call.companies) :
              LET where == BucketsOf(call.companies[i], index) IN
              /\ Cardinality(where) = 1
              /\ \A mb \in where :
                    Occurrences(call.companies[i],
                                index.markets[mb[1]].by_shariah_board[mb[2]])
                        = Occurrences(call.companies[i], call.companies)

C15_Witness ==
    /\ HasReturned("create_hierarchical_structure")
    /\ Len(call.companies) = 2
    /\ answer.result.markets[markets.TASI].total = 1
    /\ answer.result.markets[markets.NOMU].total = 1
    /\ \E i \in 1..2 : "market" \notin DOMAIN call.companies[i]

\* the record's market is the secondary market
IsSecondaryMarket(company) ==
    "market" \in DOMAIN company /\ company.market = markets.NOMU

\* C16: classify_by_market puts the records whose market is NOMU in the NOMU
\* bucket and every other record (TASI, missing, empty or unrecognised
\* market) in the TASI bucket, each bucket in input order; the bucket sizes
\* sum to the input length.
C16_MarketBuckets ==
    HasReturned("classify_by_market") =>
        /\ DOMAIN answer.result = {markets.TASI, markets.NOMU}
        /\ answer.result[markets.NOMU]
              = SelectSeq(call.companies, IsSecondaryMarket)
        /\ answer.result[markets.TASI]
              = SelectSeq(call.companies, LAMBDA c : ~IsSecondaryMarket(c))
        /\ Len(answer.result[markets.TASI]) + Len(answer.result[markets.NOMU])
              = Len(call.companies)

C16_Witness ==
    /\ HasReturned("classify_by_market")
    /\ Len(call.companies) = 2
    /\ call.companies[1].company_code = "3333"
    /\ call.companies[2].company_code = "2222"
    /\ Len(answer.result[markets.TASI]) = 1
    /\ Len(answer.result[markets.NOMU]) = 1

\* a filter argument that is a non-empty text
FilterGiven(arg) == arg # None /\ arg.text # <<>>

\* the record passes a filter on one of its fields
Passes(company, field, arg) ==
    FilterGiven(arg) =>
        normalize_arabic_text(GetOr(company, field, <<>>))
            = normalize_arabic_text(arg.text)

\* C17: filter_companies returns, in input order, exactly the records whose
\* normalized market equals the normalized market filter (when one is given)
\* and whose normalized shariah_board equals the normalized board filter
\* (when one is given); with both filters the result is the intersection of
\* the two single-filter results, with neither it is the input.
C17_FilterCompanies ==
    HasReturned("filter_companies") =>
        /\ answer.result
              = SelectSeq(call.companies, LAMBDA c :
                    /\ Passes(c, "market", call.market)
                    /\ Passes(c, "shariah_board", call.shariah_board))
        /\ answer.result
              = SelectSeq(filter_companies(call.companies, call.market, None),
                          LAMBDA c : Occurrences(c,
                              filter_companies(call.companies, None,
                                               call.shariah_board)) > 0)
        /\ (~FilterGiven(call.market) /\ ~FilterGiven(call.shariah_board))
              => answer.result = call.companies

C17_Witness ==
    /\ HasReturned("filter_companies")
    /\ call.market = Str(<<" ", "B">>)
    /\ call.shariah_board = Str(<<"K">>)
    /\ Len(call.companies) = 2
    /\ Len(answer.result) = 1
    /\ answer.result[1].company_code = "3333"

\* C18: for a non-empty text normalize_arabic_text returns a text without
\* leading or trailing whitespace, without a run of two whitespace
\* characters and without any listed diacritic, and normalizing the result
\* again changes nothing; an empty text and None are returned unchanged.
C18_NormalizedText ==
    HasReturned("normalize_arabic_text") =>
        IF call.text = None \/ call.text.text = <<>>
        THEN answer.result = call.text
        ELSE LET t == answer.result.text IN
             /\ Len(t) > 0 => t[1] \notin Whitespace /\ t[Len(t)] \notin Whitespace
             /\ \A i \in 1..(Len(t) - 1) :
                   ~(t[i] \in Whitespace /\ t[i + 1] \in Whitespace)
             /\ \A i \in 1..Len(t) : t[i] \notin arabic_diacritics
             /\ normalize_arabic_text(t) = t

-----------------------------------------------------------------------------
(* retry_on_failure around navigate_to_page                                *)
(* (src/src/scraper/enhanced_scraper.py)                                   *)

\* the largest max_attempts tried
MaxAttempts == 4

\* @retry_on_failure(max_attempts=3, delay=2) on navigate_to_page
navigate_max_attempts == 3

\* what one invocation of navigate_to_page meets: the page loads;
\* driver.get raises TimeoutException and driver.refresh() succeeds;
\* driver.get raises TimeoutException and driver.refresh() raises too;
\* driver.get raises another exception
PageLoads == {"loaded", "timeout", "timeout_refresh_raises", "error"}

\* navigate_to_page: what the invocation numbered k returns or raises
navigate_to_page(load, k) ==
    CASE load = "loaded" -> [raised |-> FALSE, value |-> "True"]
      [] load = "timeout" -> [raised |-> FALSE, value |-> "False"]
      [] load = "timeout_refresh_raises" ->
             [raised |-> TRUE, exception |-> [type |-> "refresh", attempt |-> k]]
      [] load = "error" ->
             [raised |-> TRUE, exception |-> [type |-> "get", attempt |-> k]]

\* a wrapper for which no attempt is the last one
NeverLastAttempt(k, n) == FALSE

\* "if attempt == max_attempts - 1"
IsLastAttempt(k, n) == k = n - 1

InitRetry ==
    /\ RowIdle
    /\ InstIdle
    /\ DbIdle
    /\ TrigIdle
    /\ PageIdle
    /\ call = None
    /\ answer = None
    /\ rpc = "loop"
    /\ max_attempts \in 0..MaxAttempts
    /\ attempt = 0
    /\ outcomes = <<>>
    /\ sleeps = 0
    /\ returned = None

\* one pass of "for attempt in range(max_attempts)" up to the return, the
\* raise or the call of time.sleep
InvokeWrapped ==
    /\ rpc = "loop"
    /\ attempt < max_attempts
    /\ \E load \in PageLoads :
         LET done == navigate_to_page(load, attempt) IN
         /\ outcomes' = Append(outcomes, done)
         /\ IF ~done.raised
            THEN /\ returned' = [kind |-> "return", value |-> done.value]
                 /\ rpc' = "returned"
            ELSE IF IsLastAttempt(attempt, max_attempts)
            THEN /\ returned' = [kind |-> "raise", exception |-> done.exception]
                 /\ rpc' = "raised"
            ELSE /\ rpc' = "sleep"
                 /\ UNCHANGED returned
    /\ UNCHANGED <<max_attempts, attempt, sleeps>>
    /\ UNCHANGED <<rowVars, instVars, dbVars, runVars, trigVars, callVars,
                   pageVars>>

\* time.sleep(delay), then the next pass of the loop
SleepDelay ==
    /\ rpc = "sleep"
    /\ sleeps' = sleeps + 1
    /\ attempt' = attempt + 1
    /\ rpc' = "loop"
    /\ UNCHANGED <<max_attempts, outcomes, returned>>
    /\ UNCHANGED <<rowVars, instVars, dbVars, runVars, trigVars, callVars,
                   pageVars>>

\* the loop is over without a return or a raise: "return None"
LoopEnds ==
    /\ rpc = "loop"
    /\ attempt >= max_attempts
    /\ returned' = [kind |-> "return", value |-> "None"]
    /\ rpc' = "returned"
    /\ UNCHANGED <<max_attempts, attempt, outcomes, sleeps>>
    /\ UNCHANGED <<rowVars, instVars, dbVars, runVars, trigVars, callVars,
                   pageVars>>

\* scrape_companies after the wrapped call: "if not self.navigate_to_page
\* (...): return []", and the except branch when the call raised
AfterNavigate ==
    /\ rpc \in {"returned", "raised"}
    /\ rpc' = IF returned.kind = "raise" THEN "fatal_error"
              ELSE IF returned.value = "True" THEN "navigated"
              ELSE "navigation_failed"
    /\ UNCHANGED <<max_attempts, attempt, outcomes, sleeps, returned>>
    /\ UNCHANGED <<rowVars, instVars, dbVars, runVars, trigVars, callVars,
                   pageVars>>

NextRetry ==
    \/ InvokeWrapped
    \/ SleepDelay
    \/ LoopEnds
    \/ AfterNavigate

SpecRetry == InitRetry /\ [][NextRetry]_vars

\* the invocation numbered i met a page-load timeout
TimedOut(i) ==
    \/ ~outcomes[i].raised /\ outcomes[i].value = "False"
    \/ outcomes[i].raised /\ outcomes[i].exception.type = "refresh"

\* C19: a page-load timeout inside navigate_to_page is treated as transient:
\* the navigation is attempted again after the delay, up to 3 attempts in
\* total, and only then is the failure surfaced to scrape_companies.
C19_TimeoutRetried ==
    (max_attempts = navigate_max_attempts /\ rpc \notin {"loop", "sleep"}) =>
        \A i \in 1..Len(outcomes) :
            (TimedOut(i) /\ i < navigate_max_attempts) => Len(outcomes) > i

\* C20: the wrapped operation is invoked at most N times; the result of the
\* first attempt that does not raise is returned with no further attempt; a
\* delay is inserted only between attempts; when all N attempts raise, the
\* exception of the last attempt is propagated.
C20_RetryWrapper ==
    /\ Len(outcomes) <= max_attempts
    /\ \A i \in 1..(Len(outcomes) - 1) : outcomes[i].raised
    /\ sleeps <= Len(outcomes)
    /\ rpc \notin {"loop", "sleep"} =>
          sleeps = (IF Len(outcomes) = 0 THEN 0 ELSE Len(outcomes) - 1)
    /\ rpc = "returned" =>
          IF Len(outcomes) = 0
          THEN max_attempts = 0
          ELSE /\ ~outcomes[Len(outcomes)].raised
               /\ returned = [kind |-> "return",
                              value |-> outcomes[Len(outcomes)].value]
    /\ rpc = "raised" =>
          /\ Len(outcomes) = max_attempts
          /\ outcomes[max_attempts].raised
          /\ returned = [kind |-> "raise",
                         exception |-> outcomes[max_attempts].exception]
          /\ returned.exception.attempt = max_attempts - 1

C20_Witness ==
    /\ rpc = "raised"
    /\ max_attempts = 3
    /\ Len(outcomes) = 3
    /\ sleeps = 2

-----------------------------------------------------------------------------
\* ArgaamInstitutionScraper: the crawl units of scrape_all_institutions

\* the market list the filter stands for: both markets for ALL, the named
\* market for TASI and NOMU
ClaimedMarkets(filter) ==
    CASE filter = "ALL"  -> <<3, 14>>
      [] filter = "TASI" -> <<3>>
      [] filter = "NOMU" -> <<14>>

\* the cross product of the institutions with the market list, institution
\* by institution
ClaimedUnits(filter) ==
    LET m == ClaimedMarkets(filter)
    IN  [k \in 1..(Len(InstitutionIds) * Len(m)) |->
            [institution_id |-> InstitutionIds[((k - 1) \div Len(m)) + 1],
             market_id      |-> m[((k - 1) % Len(m)) + 1]]]

\* C23: scrape_all_institutions crawls the units of the cross product of the
\* institutions with the market list of the filter, each once, one after
\* another, the units of an institution together, and the count of an
\* institution is recorded before the next institution starts
C23_CrossProductInOrder ==
    market_filter \in {"ALL", "TASI", "NOMU"} =>
        LET units == ClaimedUnits(market_filter)
            m     == ClaimedMarkets(market_filter)
        IN  /\ Len(crawled) <= Len(units)
            /\ \A k \in 1..Len(crawled) : crawled[k] = units[k]
            /\ (ipc = "returned" /\ end_time_sets = 1) => crawled = units
            /\ \A i \in 1..Len(InstitutionIds) :
                  name_ar(InstitutionIds[i]) \in
                        DOMAIN scraping_stats.companies_by_institution
                    <=> Len(crawled) >= i * Len(m)
            /\ ipc = "crawl" =>
                  Len(crawled) = (inst_idx - 1) * Len(m) + (mkt_idx - 1)

\* a run over both markets that returned records after its eight units
C23_Witness ==
    /\ ipc = "returned"
    /\ market_filter = "ALL"
    /\ Len(crawled) = 8
    /\ crawled[2] = [institution_id |-> 1, market_id |-> 14]
    /\ ret # <<>>
    /\ scraping_stats.institutions_scraped = 4

-----------------------------------------------------------------------------
\* ArgaamInstitutionScraper: the pages of one crawl unit
\* (scrape_institution_companies with handle_pagination)

\* handle_pagination: max_pages
institution_max_pages == 20

\* handle_pagination: next_selectors, in the order of the list
\* (the third looks for the text of a right guillemet, the fourth for the
\* Arabic word for "next")
next_selectors ==
    << "a.next", "a[rel='next']", ".pagination a:contains(raquo)",
       ".pagination a:contains(next)" >>

\* what find_elements and is_enabled give for one selector: no element, a
\* first element that is not enabled, a first element that is enabled, or
\* an exception (caught, the loop goes on with the next selector)
SelectorOutcomes == {"absent", "disabled", "enabled", "raises"}

Probes == [1..Len(next_selectors) -> SelectorOutcomes]

\* the selector that is enabled and has the greatest index, or 0
last_enabled(v) ==
    LET hits == {i \in 1..Len(v) : v[i] = "enabled"}
    IN  IF hits = {} THEN 0 ELSE CHOOSE i \in hits : \A j \in hits : j <= i

RECURSIVE FirstEnabled(_, _)
FirstEnabled(v, i) ==
    IF i > Len(v) THEN 0
    ELSE IF v[i] = "enabled" THEN i
    ELSE FirstEnabled(v, i + 1)

\* handle_pagination: the for loop over next_selectors, which leaves
\* next_element at the first selector with an enabled first element
\* (0 for None)
next_element(v) == FirstEnabled(v, 1)

\* a loop condition that never ends the traversal
NoPageLimit(p) == TRUE

\* handle_pagination: while current_page < max_pages
MorePages(p) == p < institution_max_pages

\* the institution whose unit is crawled
UnitInstitution == name_ar(1)

InitPages ==
    /\ RowIdle
    /\ InstIdle
    /\ DbIdle
    /\ TrigIdle
    /\ CallIdle
    /\ ppc = "get"
    /\ cur_page = 1
    /\ parsed = <<>>
    /\ unit_errors = <<>>
    /\ probed = <<>>
    /\ activated = 0
    /\ clicks = 0

\* scrape_institution_companies up to the call of handle_pagination: the
\* first page is loaded and its rows extracted, or an exception is caught,
\* recorded and the unit returns
GetFirstPage ==
    /\ ppc = "get"
    /\ \E loaded \in BOOLEAN :
          IF loaded
          THEN /\ parsed' = Append(parsed, 1)
               /\ ppc' = "while"
               /\ UNCHANGED unit_errors
          ELSE /\ unit_errors' = Append(unit_errors, UnitError(UnitInstitution))
               /\ ppc' = "returned"
               /\ UNCHANGED parsed
    /\ UNCHANGED <<cur_page, probed, activated, clicks>>
    /\ UNCHANGED <<rowVars, instVars, dbVars, runVars, trigVars, callVars,
                   retryVars>>

\* handle_pagination: one pass of the while loop; no selector gives an
\* enabled control and the loop breaks, or the control is clicked and either
\* the click raises (the loop breaks, nothing is recorded) or the new page is
\* parsed and current_page incremented
NextPage ==
    /\ ppc = "while"
    /\ MorePages(cur_page)
    /\ \E v \in Probes, click \in {"ok", "raises"} :
          /\ probed' = v
          /\ activated' = next_element(v)
          /\ IF next_element(v) = 0
             THEN /\ click = "ok"
                  /\ ppc' = "returned"
                  /\ UNCHANGED <<cur_page, parsed, clicks>>
             ELSE /\ clicks' = clicks + 1
                  /\ IF click = "raises"
                     THEN /\ ppc' = "returned"
                          /\ UNCHANGED <<cur_page, parsed>>
                     ELSE /\ parsed' = Append(parsed, cur_page + 1)
                          /\ cur_page' = cur_page + 1
                          /\ ppc' = "while"
    /\ UNCHANGED unit_errors
    /\ UNCHANGED <<rowVars, instVars, dbVars, runVars, trigVars, callVars,
                   retryVars>>

\* handle_pagination: the while condition fails and the pages are returned
PageLimitReached ==
    /\ ppc = "while"
    /\ ~MorePages(cur_page)
    /\ ppc' = "returned"
    /\ UNCHANGED <<cur_page, parsed, unit_errors, probed, activated, clicks>>
    /\ UNCHANGED <<rowVars, instVars, dbVars, runVars, trigVars, callVars,
                   retryVars>>

NextPages ==
    \/ GetFirstPage
    \/ NextPage
    \/ PageLimitReached

\* the traversal is sequential code: a step that can be taken is taken
SpecPages == InitPages /\ [][NextPages]_vars /\ WF_vars(NextPages)

\* C21: the traversal of one crawl unit always terminates, and it processes
\* at most 20 pages, the initial page and at most 19 activations of a
\* next-page control, also when such a control stays enabled for ever
C21_TraversalBounded ==
    /\ [](Len(parsed) <= 20 /\ clicks <= 19)
    /\ <>(ppc = "returned")

\* the next-page control was enabled at every probe and the unit returned
\* after 20 pages
C21_Witness ==
    /\ ppc = "returned"
    /\ Len(parsed) = 20
    /\ clicks = 19
    /\ activated # 0

\* C22: the next-page selectors are probed in the order of the list and the
\* first one that gives an enabled control is the one clicked; when none
\* does, the unit ends, and a unit where none ever did returns the records
\* of the first page only and appends nothing to the errors
C22_FirstEnabledSelector ==
    /\ probed # <<>> =>
          /\ activated = 0 => \A i \in 1..Len(probed) : probed[i] # "enabled"
          /\ activated # 0 =>
                /\ probed[activated] = "enabled"
                /\ \A j \in 1..(activated - 1) : probed[j] # "enabled"
    /\ (probed # <<>> /\ activated = 0) => ppc = "returned"
    /\ (probed # <<>> /\ activated = 0 /\ clicks = 0) =>
          /\ parsed = <<1>>
          /\ unit_errors = <<>>

\* the first selector gave a control that is not enabled, the second and the
\* third an enabled one, and the second was clicked
C22_Witness ==
    /\ probed # <<>>
    /\ probed[1] = "disabled"
    /\ probed[2] = "enabled"
    /\ probed[3] = "enabled"
    /\ activated = 2
    /\ clicks = 1

=============================================================================
